---- MODULE Spec2Model ----
(***************************************************************************)
(* The two Streamlit pipelines of the repository as state machines.        *)
(*                                                                         *)
(*   main.py  run_agents: scrape -> analysis -> fact-check -> summary      *)
(*            [-> the same for a second URL] -> editorial, driven by the   *)
(*            "Editorial Generieren" form.                                 *)
(*   app.py   main: Search / checkbox / "Start Analysis" over the session  *)
(*            state, scrape of every selected URL, one analysis call.      *)
(*                                                                         *)
(* The external collaborators (Firecrawl, OpenAI, SerpAPI) are the         *)
(* environment: every call to one of them is a step whose response is      *)
(* chosen from a small set.  A text is a sequence of tokens; a token is a  *)
(* character of the alphabet or one literal piece of an f-string.          *)
(***************************************************************************)
EXTENDS Integers, Sequences, FiniteSets, TLC

VARIABLES
    program,            \* which script Streamlit runs: "main.py" or "app.py"
    \* ---- main.py ----
    pc,                 \* position of the form handler / run_agents
    url, style_instructions, second_url,          \* form inputs (main.py:293-295)
    scraped_content, analysis, fact_check, summary,            \* locals of run_agents
    scraped_content_2, analysis_2, fact_check_2, summary_2,
    results,            \* value returned by run_agents (main.py:309)
    calls,              \* external calls made so far, in order
    errors,             \* st.error messages shown so far in this script run
    shown,              \* sections written by the handler (main.py:310-321)
    failed_before,      \* history: the run before this one ended in a failure
    \* ---- app.py ----
    search_performed, search_results, checkbox_states,         \* st.session_state
    app_pc,             \* position of the "Start Analysis" handler
    objective, specific_url,                                   \* widgets
    selected_urls, next_url, all_scraped_content,              \* locals of main()
    app_calls,          \* external calls of the current script run, in order
    app_msgs,           \* st.warning / st.error / st.success of the current run
    displayed           \* what st.json displayed (app.py:294)

mainVars == <<pc, url, style_instructions, second_url, scraped_content, analysis,
              fact_check, summary, scraped_content_2, analysis_2, fact_check_2,
              summary_2, results, calls, errors, shown, failed_before>>
appVars == <<search_performed, search_results, checkbox_states, app_pc, objective,
             specific_url, selected_urls, next_url, all_scraped_content, app_calls,
             app_msgs, displayed>>
vars == <<program, mainVars, appVars>>

----------------------------------------------------------------------------
(* Bounds of the model *)

\* longest text the completion service answers with
MaxLen == 2
\* longest page text the fetcher answers with
MaxDocLen == 2

----------------------------------------------------------------------------
(* Texts *)

\* Python's None, kept a sequence so that it compares with every text
None == <<"<None>">>

RECURSIVE SeqsUpTo(_, _)
SeqsUpTo(S, n) ==
    IF n = 0 THEN {<<>>}
    ELSE LET shorter == SeqsUpTo(S, n - 1)
         IN  shorter \cup {Append(s, c) : s \in {t \in shorter : Len(t) = n - 1}, c \in S}

\* what the completion service can answer: blanks and letters
RawTexts == SeqsUpTo({" ", "a"}, MaxLen)
\* what a scraped page can hold
DocTexts == SeqsUpTo({"d"}, MaxDocLen)

IsSpace(c) == c = " "

RECURSIVE LStrip(_)
LStrip(s) == IF s /= <<>> /\ IsSpace(Head(s)) THEN LStrip(Tail(s)) ELSE s

RECURSIVE RStrip(_)
RStrip(s) ==
    IF s /= <<>> /\ IsSpace(s[Len(s)]) THEN RStrip(SubSeq(s, 1, Len(s) - 1)) ELSE s

\* str.strip()
Strip(s) == LStrip(RStrip(s))

\* Python truth value of a str-or-None
Truthy(x) == x /= None /\ x /= <<>>

\* t occurs in s as a contiguous piece
Contains(s, t) ==
    \E i \in 0..(Len(s) - Len(t)) : SubSeq(s, i + 1, i + Len(t)) = t

----------------------------------------------------------------------------
(* main.py: collaborators and stage functions *)

\* Firecrawl's answers to app.scrape_url: an exception, a value that is no
\* dict, a dict without 'markdown', a dict whose 'markdown' is None or a text
ScrapeResponses ==
    {[kind |-> k, markdown |-> None] : k \in {"raise", "nodict", "nomarkdown"}}
        \cup {[kind |-> "dict", markdown |-> t] : t \in DocTexts \cup {None}}

\* OpenAI's answers to chat.completions.create: an exception, a message whose
\* content is None, a message with a text
CompletionResponses ==
    {[kind |-> k, text |-> <<>>] : k \in {"raise", "nocontent"}}
        \cup {[kind |-> "text", text |-> t] : t \in RawTexts}

ScrapeFailedMsg == "Ein Fehler ist beim Scrapen aufgetreten"
CompletionFailedMsg == "Ein Fehler ist bei der Generierung der Vervollstaendigung aufgetreten"

\* scrape_website handing back the printed response when it holds no markdown
scrape_website_any_response(resp) ==
    IF resp.kind = "dict" THEN resp.markdown
    ELSE IF resp.kind = "raise" THEN None
    ELSE <<"d">>

\* value returned by scrape_website(url) when Firecrawl answers resp
scrape_website(resp) == IF resp.kind = "dict" THEN resp.markdown ELSE None

\* st.error of scrape_website
scrape_website_errors(resp) ==
    IF resp.kind = "dict" THEN <<>> ELSE <<ScrapeFailedMsg>>

\* generate_completion answering a failed call with a text of its own
generate_completion_default_text(resp) ==
    IF resp.kind = "text" THEN Strip(resp.text) ELSE <<"a">>

\* generate_completion without the .strip()
generate_completion_no_strip(resp) == IF resp.kind = "text" THEN resp.text ELSE None

\* value returned by generate_completion(role, task, content) when OpenAI
\* answers resp; content None makes .strip() raise inside the try
generate_completion(resp) == IF resp.kind = "text" THEN Strip(resp.text) ELSE None

\* st.error of generate_completion
generate_completion_errors(resp) ==
    IF resp.kind = "text" THEN <<>> ELSE <<CompletionFailedMsg>>

\* how the completion call itself ended, as the service saw it
OutcomeOf(resp) ==
    IF resp.kind /= "text" THEN "raised"
    ELSE IF resp.text = <<>> THEN "empty"
    ELSE IF Strip(resp.text) = <<>> THEN "blank"
    ELSE "text"

analyze_website_content(content, resp) == generate_completion(resp)
fact_check_content(content, resp) == generate_completion(resp)
summarize_content(content, resp) == generate_completion(resp)

AnalyzeFailedMsg == "Inhalt konnte nicht analysiert werden."
FactCheckFailedMsg == "Inhalt konnte nicht faktengeprueft werden."
SummaryFailedMsg == "Inhalt konnte nicht zusammengefasst werden."
EditorialFailedMsg == "Editorial konnte nicht generiert werden."
EditorialMissingMsg == "Es fehlen Komponenten zur Generierung des Editorials."

\* literal pieces of the f-strings
LabelAnalyse == <<"Analyse: ">>
LabelFaktenpruefung == <<"\nFaktenpruefung: ">>
LabelZusammenfassung == <<"\nZusammenfassung:\n">>
LabelStil == <<"\nStil-Anweisungen: ">>
LabelAnalyse2 == <<"\n\nZusaetzliche Analyse der zweiten Quelle:\n">>
LabelFaktenpruefung2 == <<"\n\nZusaetzliche Faktenpruefung der zweiten Quelle:\n">>
LabelZusammenfassung2 == <<"\n\nZusaetzliche Zusammenfassung der zweiten Quelle:\n">>

\* the all([...]) guard of generate_editorial
editorial_components_present(a, f, s, style) ==
    Truthy(a) /\ Truthy(f) /\ Truthy(s) /\ Truthy(style)

\* generate_editorial with the analysis pasted where the fact-check belongs
editorial_content_analysis_twice(a, f, s, style) ==
    LabelAnalyse \o a \o LabelFaktenpruefung \o a \o LabelZusammenfassung \o s
        \o LabelStil \o style

\* user message generate_editorial sends to the completion service
editorial_content(a, f, s, style) ==
    LabelAnalyse \o a \o LabelFaktenpruefung \o f \o LabelZusammenfassung \o s
        \o LabelStil \o style

generate_editorial(a, f, s, style, resp) ==
    IF editorial_components_present(a, f, s, style)
    THEN generate_completion(resp)
    ELSE None

----------------------------------------------------------------------------
(* main.py: the form handler and run_agents *)

\* validators.url, an external library: the well-formed URLs of the model
validators_url(u) == u \in {"u1", "u2"}

FormUrls == {"", "bad", "u1"}
FormSecondUrls == {"", "bad", "u2"}
FormStyles == {<<>>, <<" ">>, <<"s">>}

\* the fillings of the form: the handler reads no field after the first one it
\* rejects, so the fields after that one are left empty
Forms ==
    {f \in [url : FormUrls, style : FormStyles, second : FormSecondUrls] :
        /\ ~validators_url(f.url) => (f.style = <<>> /\ f.second = "")
        /\ Strip(f.style) = <<>> => f.second = ""}

\* run_agents returning what it has so far
ResultPartial ==
    [isNone |-> FALSE, Analyse |-> analysis, Faktenpruefung |-> fact_check,
     Zusammenfassung |-> summary, Editorial |-> None]

\* run_agents returning None
ResultNone ==
    [isNone |-> TRUE, Analyse |-> None, Faktenpruefung |-> None,
     Zusammenfassung |-> None, Editorial |-> None]

\* an entry of calls: what was asked (url, or role and input), how the
\* collaborator answered (outcome; fetched, the page text Firecrawl delivered),
\* and what the wrapper function returned to run_agents (ret)
ScrapeCall(src, u, resp, ret) ==
    [stage |-> "scrape", src |-> src, url |-> u, role |-> "", input |-> <<>>,
     outcome |-> resp.kind, fetched |-> resp.markdown, ret |-> ret]

CompletionCall(stage, src, role, content, resp, ret) ==
    [stage |-> stage, src |-> src, url |-> "", role |-> role, input |-> content,
     outcome |-> OutcomeOf(resp), fetched |-> None, ret |-> ret]

\* the fact-check of the second source run on the first page
fact_check_2_input_first_source == scraped_content

\* arguments run_agents passes to the stages
analysis_input == scraped_content
fact_check_input == scraped_content
summary_input == scraped_content
analysis_2_input == scraped_content_2
fact_check_2_input == scraped_content_2
summary_2_input == scraped_content_2

\* run_agents never turning to the second source
after_summary_skip == "editorial"

\* "if second_url:" after the first summary
after_summary == IF second_url /= "" THEN "scrape_2" ELSE "editorial"

\* "if x is None" where the code says "if not x"
step_failed_only_none(ret) == ret = None

\* "if not x: st.error(...); return None" after a step of run_agents
step_failed(ret) == ~Truthy(ret)

\* the two analyses combined the wrong way round
combined_analysis_swapped ==
    IF second_url /= "" THEN analysis_2 \o LabelAnalyse2 \o analysis ELSE analysis

combined_analysis ==
    IF second_url /= "" THEN analysis \o LabelAnalyse2 \o analysis_2 ELSE analysis
combined_fact_check ==
    IF second_url /= "" THEN fact_check \o LabelFaktenpruefung2 \o fact_check_2
    ELSE fact_check
combined_summary ==
    IF second_url /= "" THEN summary \o LabelZusammenfassung2 \o summary_2
    ELSE summary

mainLocals == <<scraped_content, analysis, fact_check, summary, scraped_content_2,
                analysis_2, fact_check_2, summary_2>>
formInputs == <<url, style_instructions, second_url>>

\* the rest of a step of run_agents once its call has returned ret: halt with
\* None (the handler then shows nothing), or go on to the next step
Proceed(ret, raised, stageMsgs, runMsg, next) ==
    IF step_failed(ret)
    THEN /\ pc' = "done"
         /\ errors' = errors \o raised \o stageMsgs \o <<runMsg>>
         /\ results' = ResultNone
         /\ shown' = <<>>
    ELSE /\ pc' = next
         /\ errors' = errors \o raised
         /\ UNCHANGED <<results, shown>>

\* run_agents has returned None to the handler
RunFailed == pc = "done" /\ results.isNone

\* the locals of run_agents kept from one invocation to the next
stale_frame ==
    /\ UNCHANGED mainLocals
    /\ results' = ResultNone
    /\ calls' = <<>>
    /\ shown' = <<>>

\* a script run starts from nothing: the page is empty and the locals of
\* run_agents are those of a new invocation
fresh_frame ==
    /\ scraped_content' = None /\ analysis' = None
    /\ fact_check' = None /\ summary' = None
    /\ scraped_content_2' = None /\ analysis_2' = None
    /\ fact_check_2' = None /\ summary_2' = None
    /\ results' = ResultNone
    /\ calls' = <<>>
    /\ shown' = <<>>

\* one script run with the form submitted: validation, then run_agents
SubmitForm ==
    /\ program = "main.py"
    /\ pc \in {"idle", "done"}
    /\ \E f \in Forms :
        LET u == f.url
            s == f.style
            u2 == f.second
        IN
        /\ url' = u
        /\ style_instructions' = s
        /\ second_url' = u2
        /\ fresh_frame
        /\ IF u = "" THEN
                pc' = "idle" /\ errors' = <<"Bitte geben Sie eine gueltige URL ein.">>
           ELSE IF ~validators_url(u) THEN
                pc' = "idle" /\ errors' = <<"Die eingegebene URL ist ungueltig.">>
           ELSE IF Strip(s) = <<>> THEN
                pc' = "idle" /\ errors' = <<"Bitte geben Sie Ihre Stil-Anweisungen ein.">>
           ELSE IF u2 /= "" /\ ~validators_url(u2) THEN
                pc' = "idle" /\ errors' = <<"Die eingegebene zweite URL ist ungueltig.">>
           ELSE pc' = "scrape_1" /\ errors' = <<>>
    /\ UNCHANGED <<program, appVars>>

Submit == SubmitForm /\ UNCHANGED failed_before

\* the same, with the history recorded; the history is followed up to the end
\* of the first run that comes after a failed one
SubmitRecorded == SubmitForm /\ ~failed_before /\ failed_before' = RunFailed

UnexpectedErrorMsg == "Ein unerwarteter Fehler ist aufgetreten"

RunningPcs ==
    {"scrape_1", "analysis_1", "fact_check_1", "summary_1", "scrape_2", "analysis_2",
     "fact_check_2", "summary_2", "editorial"}

\* an exception nothing else catches, raised anywhere in the try block of
\* run_agents (a Streamlit call, say): the except clause reports it and
\* returns None
UnexpectedException ==
    /\ program = "main.py"
    /\ pc \in RunningPcs
    /\ pc' = "done"
    /\ errors' = Append(errors, UnexpectedErrorMsg)
    /\ results' = ResultNone
    /\ shown' = <<>>
    /\ calls' = calls
    /\ UNCHANGED <<program, appVars, failed_before, formInputs, mainLocals>>

Scrape1 ==
    /\ program = "main.py"
    /\ pc = "scrape_1"
    /\ \E resp \in ScrapeResponses :
        LET ret == scrape_website(resp) IN
        /\ calls' = Append(calls, ScrapeCall(1, url, resp, ret))
        /\ scraped_content' = ret
        /\ Proceed(ret, scrape_website_errors(resp), <<>>,
                   "Das Scrapen der Website ist fehlgeschlagen.", "analysis_1")
    /\ UNCHANGED <<program, appVars, failed_before, formInputs, analysis, fact_check, summary,
                   scraped_content_2, analysis_2, fact_check_2, summary_2>>

Analyze1 ==
    /\ program = "main.py"
    /\ pc = "analysis_1"
    /\ \E resp \in CompletionResponses :
        LET ret == analyze_website_content(analysis_input, resp) IN
        /\ calls' = Append(calls, CompletionCall("analysis", 1, "Inhaltsanalyst",
                                                 analysis_input, resp, ret))
        /\ analysis' = ret
        /\ Proceed(ret, generate_completion_errors(resp), <<AnalyzeFailedMsg>>,
                   "Inhalt konnte nicht analysiert werden.", "fact_check_1")
    /\ UNCHANGED <<program, appVars, failed_before, formInputs, scraped_content, fact_check, summary,
                   scraped_content_2, analysis_2, fact_check_2, summary_2>>

FactCheck1 ==
    /\ program = "main.py"
    /\ pc = "fact_check_1"
    /\ \E resp \in CompletionResponses :
        LET ret == fact_check_content(fact_check_input, resp) IN
        /\ calls' = Append(calls, CompletionCall("fact_check", 1, "Faktenpruefer",
                                                 fact_check_input, resp, ret))
        /\ fact_check' = ret
        /\ Proceed(ret, generate_completion_errors(resp), <<FactCheckFailedMsg>>,
                   "Inhalt konnte nicht faktengeprueft werden.", "summary_1")
    /\ UNCHANGED <<program, appVars, failed_before, formInputs, scraped_content, analysis, summary,
                   scraped_content_2, analysis_2, fact_check_2, summary_2>>

Summarize1 ==
    /\ program = "main.py"
    /\ pc = "summary_1"
    /\ \E resp \in CompletionResponses :
        LET ret == summarize_content(summary_input, resp) IN
        /\ calls' = Append(calls, CompletionCall("summary", 1, "Zusammenfasser",
                                                 summary_input, resp, ret))
        /\ summary' = ret
        /\ Proceed(ret, generate_completion_errors(resp), <<SummaryFailedMsg>>,
                   "Inhalt konnte nicht zusammengefasst werden.", after_summary)
    /\ UNCHANGED <<program, appVars, failed_before, formInputs, scraped_content, analysis, fact_check,
                   scraped_content_2, analysis_2, fact_check_2, summary_2>>

Scrape2 ==
    /\ program = "main.py"
    /\ pc = "scrape_2"
    /\ \E resp \in ScrapeResponses :
        LET ret == scrape_website(resp) IN
        /\ calls' = Append(calls, ScrapeCall(2, second_url, resp, ret))
        /\ scraped_content_2' = ret
        /\ Proceed(ret, scrape_website_errors(resp), <<>>,
                   "Das Scrapen der zweiten Website ist fehlgeschlagen.", "analysis_2")
    /\ UNCHANGED <<program, appVars, failed_before, formInputs, scraped_content, analysis, fact_check,
                   summary, analysis_2, fact_check_2, summary_2>>

Analyze2 ==
    /\ program = "main.py"
    /\ pc = "analysis_2"
    /\ \E resp \in CompletionResponses :
        LET ret == analyze_website_content(analysis_2_input, resp) IN
        /\ calls' = Append(calls, CompletionCall("analysis", 2, "Inhaltsanalyst",
                                                 analysis_2_input, resp, ret))
        /\ analysis_2' = ret
        /\ Proceed(ret, generate_completion_errors(resp), <<AnalyzeFailedMsg>>,
                   "Inhalt der zweiten Quelle konnte nicht analysiert werden.",
                   "fact_check_2")
    /\ UNCHANGED <<program, appVars, failed_before, formInputs, scraped_content, analysis, fact_check,
                   summary, scraped_content_2, fact_check_2, summary_2>>

FactCheck2 ==
    /\ program = "main.py"
    /\ pc = "fact_check_2"
    /\ \E resp \in CompletionResponses :
        LET ret == fact_check_content(fact_check_2_input, resp) IN
        /\ calls' = Append(calls, CompletionCall("fact_check", 2, "Faktenpruefer",
                                                 fact_check_2_input, resp, ret))
        /\ fact_check_2' = ret
        /\ Proceed(ret, generate_completion_errors(resp), <<FactCheckFailedMsg>>,
                   "Inhalt der zweiten Quelle konnte nicht faktengeprueft werden.",
                   "summary_2")
    /\ UNCHANGED <<program, appVars, failed_before, formInputs, scraped_content, analysis, fact_check,
                   summary, scraped_content_2, analysis_2, summary_2>>

Summarize2 ==
    /\ program = "main.py"
    /\ pc = "summary_2"
    /\ \E resp \in CompletionResponses :
        LET ret == summarize_content(summary_2_input, resp) IN
        /\ calls' = Append(calls, CompletionCall("summary", 2, "Zusammenfasser",
                                                 summary_2_input, resp, ret))
        /\ summary_2' = ret
        /\ Proceed(ret, generate_completion_errors(resp), <<SummaryFailedMsg>>,
                   "Inhalt der zweiten Quelle konnte nicht zusammengefasst werden.",
                   "editorial")
    /\ UNCHANGED <<program, appVars, failed_before, formInputs, scraped_content, analysis, fact_check,
                   summary, scraped_content_2, analysis_2, fact_check_2>>

\* Schritt 5, the return of the dict, and the handler writing its four sections
Editorial ==
    /\ program = "main.py"
    /\ pc = "editorial"
    /\ pc' = "done"
    /\ IF ~editorial_components_present(combined_analysis, combined_fact_check,
                                        combined_summary, style_instructions)
       THEN /\ errors' = errors \o <<EditorialMissingMsg, EditorialFailedMsg>>
            /\ results' = ResultNone
            /\ shown' = <<>>
            /\ calls' = calls
       ELSE \E resp \in CompletionResponses :
            LET content == editorial_content(combined_analysis, combined_fact_check,
                                             combined_summary, style_instructions)
                ret == generate_editorial(combined_analysis, combined_fact_check,
                                          combined_summary, style_instructions, resp)
            IN  /\ calls' = Append(calls, CompletionCall("editorial", 0, "Redakteur",
                                                         content, resp, ret))
                /\ IF step_failed(ret)
                   THEN /\ errors' = errors \o generate_completion_errors(resp)
                                        \o <<EditorialFailedMsg, EditorialFailedMsg>>
                        /\ results' = ResultNone
                        /\ shown' = <<>>
                   ELSE /\ errors' = errors
                        /\ results' = [isNone |-> FALSE,
                                       Analyse |-> combined_analysis,
                                       Faktenpruefung |-> combined_fact_check,
                                       Zusammenfassung |-> combined_summary,
                                       Editorial |-> ret]
                        /\ shown' = <<combined_analysis, combined_fact_check,
                                      combined_summary, ret>>
    /\ UNCHANGED <<program, appVars, failed_before, formInputs, mainLocals>>

----------------------------------------------------------------------------
(* app.py: collaborators and helper functions *)

\* most results SerpAPI answers with
MaxApiResults == 6
\* search_results keeps the first TopResults of them
TopResults == 5
\* characters of the content that go into the prompt
ContentLimit == 24000

Take(s, n) == SubSeq(s, 1, IF Len(s) < n THEN Len(s) ELSE n)

\* SerpAPI's answers to GoogleSearch(params).get_dict(): an exception, whose
\* str() may be empty; a dict with an 'error'; a dict holding n results under
\* the key of the engine asked
SearchResponses ==
    {[kind |-> "raise", error |-> e, n |-> 0] : e \in {"", "timed out"}}
        \cup {[kind |-> "dict", error |-> "no results", n |-> 0]}
        \cup {[kind |-> "dict", error |-> "", n |-> n] : n \in 0..MaxApiResults}

\* the i-th result of a search: its link
ResultLink(i) == ToString(i)

\* the dict search_google returns: its 'error' ("" when it has none) and the
\* number of results it holds
search_google(resp) ==
    IF resp.kind = "raise" THEN [error |-> resp.error, n |-> 0]
    ELSE [error |-> resp.error, n |-> resp.n]

\* search_results.get("error")
search_google_error(found) == found.error /= ""

\* the whole list where the code takes [:5]
top_results_all(found) == [i \in 1..found.n |-> ResultLink(i)]

\* search_results.get("news_results" or "organic_results", [])[:5]
top_results(found) ==
    [i \in 1..(IF found.n < TopResults THEN found.n ELSE TopResults) |-> ResultLink(i)]

\* what search_google shows while it runs
search_google_msgs(resp) ==
    IF resp.kind = "raise" THEN <<"error: Error searching">>
    ELSE <<"info: Search completed successfully.">>

\* whether the search delivered results or an error, whatever main() makes of it
SearchOutcome(resp) ==
    IF resp.kind = "raise" \/ resp.error /= "" THEN "error" ELSE "results"

\* the dict scrape_url returns when Firecrawl answers resp
scrape_url(resp) ==
    IF resp.kind = "raise" THEN [results |-> None, error |-> resp.message]
    ELSE IF resp.kind /= "dict"
        THEN [results |-> None, error |-> "Unexpected API response format"]
    ELSE IF ~Truthy(resp.markdown)
        THEN [results |-> None, error |-> "No content scraped"]
    ELSE [results |-> resp.markdown, error |-> ""]

\* Firecrawl's answers in app.py: as in main.py, with one page text; the
\* str() of an exception may be empty
AppScrapeResponses ==
    {[kind |-> "raise", markdown |-> None, message |-> e] : e \in {"", "timed out"}}
        \cup {[kind |-> k, markdown |-> None, message |-> ""] : k \in {"nodict", "nomarkdown"}}
        \cup {[kind |-> "dict", markdown |-> t, message |-> ""] : t \in {None, <<>>, <<"d">>}}

\* OpenAI's answers in app.py: an exception, a message without content, an empty
\* text, a text that is no JSON, a JSON document
JsonText == <<"{", "}">>
AppCompletionResponses ==
    {[kind |-> k, text |-> <<>>] : k \in {"raise", "nocontent"}}
        \cup {[kind |-> "text", text |-> t] : t \in {<<>>, <<"a">>, JsonText}}

\* value returned by app.py's generate_completion: the content as it is, or ""
\* when the call raises
app_generate_completion(resp) ==
    IF resp.kind = "raise" THEN <<>>
    ELSE IF resp.kind = "nocontent" THEN None
    ELSE resp.text

\* json.loads: the parsed value, JSONDecodeError for a text that is no JSON,
\* TypeError for None
json_loads(t) ==
    IF t = None THEN "TypeError"
    ELSE IF Strip(t) = JsonText THEN "parsed"
    ELSE "JSONDecodeError"

\* two of the four entries of the selectbox
InstructionOptions == {"default", "structured"}

Task(instruction_option) == <<"task: ", instruction_option>>

full_prompt(content, obj, instruction_option) ==
    Task(instruction_option) \o <<"\n\n">> \o <<"Ziel: ", obj, "\n\nInhalt: ">>
        \o Take(content, ContentLimit)

NoResults == [kind |-> "None", text |-> None]

\* the dict app.py's analyze_website_content returns
app_analyze_website_content(content, resp) ==
    IF ~Truthy(content) THEN [results |-> NoResults, error |-> "No content to analyze"]
    ELSE LET a == app_generate_completion(resp)
             parsed == json_loads(a)
         IN  IF parsed = "TypeError" THEN [results |-> NoResults, error |-> "TypeError"]
             ELSE IF parsed = "parsed"
                 THEN [results |-> [kind |-> "json", text |-> a], error |-> ""]
             ELSE [results |-> [kind |-> "analysis", text |-> a], error |-> ""]

RECURSIVE Join(_, _)
\* sep.join(parts)
Join(sep, parts) ==
    IF parts = <<>> THEN <<>>
    ELSE IF Len(parts) = 1 THEN parts[1]
    ELSE parts[1] \o sep \o Join(sep, Tail(parts))

\* f"Content from {url}:\n{results}\n\n"
content_block(u, text) == <<"Content from ", u, ":\n">> \o text \o <<"\n\n">>

\* the links of the ticked results, then the specific URL when one is given
selected(found, ticks, specific) ==
    SelectSeq([i \in 1..Len(found) |-> IF ticks[i] THEN found[i] ELSE ""],
              LAMBDA u : u /= "")
        \o (IF specific /= "" THEN <<specific>> ELSE <<>>)

\* what Firecrawl delivered, whatever scrape_url makes of it
FetchOutcome(resp) ==
    IF resp.kind = "dict" /\ resp.markdown /= None /\ resp.markdown /= <<>>
    THEN "text" ELSE "failed"

AppCall(stage, u, input, outcome) ==
    [stage |-> stage, url |-> u, input |-> input, outcome |-> outcome]

----------------------------------------------------------------------------
(* app.py: main(), one action per script run or per external call of a run *)

sessionState == <<search_performed, search_results, checkbox_states>>
runLocals == <<selected_urls, next_url, all_scraped_content>>

\* the page is drawn anew by every script run
FreshPage ==
    /\ app_calls' = <<>>
    /\ app_msgs' = <<>>
    /\ displayed' = NoResults
    /\ selected_urls' = <<>>
    /\ next_url' = 1
    /\ all_scraped_content' = <<>>

\* a click on "Search"
Search ==
    /\ program = "app.py"
    /\ app_pc = "idle"
    /\ \E obj \in {"", "o"}, resp \in SearchResponses :
        /\ objective' = obj
        /\ selected_urls' = <<>> /\ next_url' = 1 /\ all_scraped_content' = <<>>
        /\ displayed' = NoResults
        /\ IF obj = ""
           THEN /\ UNCHANGED sessionState
                /\ app_calls' = <<>>
                /\ app_msgs' = <<>>
           ELSE /\ search_performed' = TRUE
                /\ app_calls' = <<AppCall("search", "", <<obj>>, SearchOutcome(resp))>>
                /\ LET found == search_google(resp) IN
                   IF search_google_error(found)
                   THEN /\ app_msgs' = search_google_msgs(resp) \o <<"error: Error in search">>
                        /\ UNCHANGED <<search_results, checkbox_states>>
                   ELSE /\ app_msgs' = search_google_msgs(resp)
                        /\ search_results' = top_results(found)
                        /\ checkbox_states' = [i \in 1..Len(top_results(found)) |-> FALSE]
    /\ UNCHANGED <<program, mainVars, app_pc, specific_url>>

\* a script run caused by ticking or unticking the i-th checkbox
Toggle ==
    /\ program = "app.py"
    /\ app_pc = "idle"
    /\ search_performed /\ search_results /= <<>>
    /\ \E i \in 1..Len(search_results) :
        checkbox_states' = [checkbox_states EXCEPT ![i] = ~checkbox_states[i]]
    /\ FreshPage
    /\ UNCHANGED <<program, mainVars, app_pc, objective, specific_url,
                   search_performed, search_results>>

\* a click on "Start Analysis", up to the first scrape
StartAnalysis ==
    /\ program = "app.py"
    /\ app_pc = "idle"
    /\ \E obj \in {"", "o"}, specific \in {"", "x"} :
        LET urls == selected(search_results, checkbox_states, specific) IN
        /\ objective' = obj
        /\ specific_url' = specific
        /\ selected_urls' = urls
        /\ next_url' = 1
        /\ all_scraped_content' = <<>>
        /\ app_calls' = <<>>
        /\ displayed' = NoResults
        /\ IF urls = <<>>
           THEN /\ app_msgs' = <<"warning: Please select at least one search result">>
                /\ app_pc' = "idle"
           ELSE /\ app_msgs' = <<>>
                /\ app_pc' = "scraping"
    /\ UNCHANGED <<program, mainVars, sessionState>>

\* one turn of the loop over selected_urls, and what follows the last turn,
\* with Firecrawl answering from the given responses
AppScrapeFrom(responses) ==
    /\ program = "app.py"
    /\ app_pc = "scraping"
    /\ \E resp \in responses :
        LET u == selected_urls[next_url]
            scrape_results == scrape_url(resp)
            failed == scrape_results.error /= ""
            content == IF failed THEN all_scraped_content
                       ELSE IF Truthy(scrape_results.results)
                           THEN Append(all_scraped_content,
                                       content_block(u, scrape_results.results))
                       ELSE all_scraped_content
            msgs == IF failed THEN Append(app_msgs, "warning: Error in scraping URL")
                    ELSE IF Truthy(scrape_results.results) THEN app_msgs
                    ELSE Append(app_msgs, "warning: No content was scraped from the URL")
        IN  /\ app_calls' = Append(app_calls,
                                   AppCall("scrape", u, <<>>, FetchOutcome(resp)))
            /\ all_scraped_content' = content
            /\ IF next_url < Len(selected_urls)
               THEN /\ next_url' = next_url + 1
                    /\ app_pc' = "scraping"
                    /\ app_msgs' = msgs
               ELSE /\ next_url' = next_url
                    /\ IF content = <<>>
                       THEN /\ app_pc' = "idle"
                            /\ app_msgs' = Append(msgs,
                                 "error: No content was successfully scraped")
                       ELSE /\ app_pc' = "analyzing"
                            /\ app_msgs' = msgs
    /\ UNCHANGED <<program, mainVars, sessionState, objective, specific_url,
                   selected_urls, displayed>>

AppScrape == AppScrapeFrom(AppScrapeResponses)

\* a page of n characters
Page(n) == [i \in 1..n |-> "d"]

\* page lengths around the limits: with the four tokens content_block adds,
\* the combined content is 8000, 8001, 24000 and 24001 long, among others
PageLengths == {1, 100, 7996, 7997, 12000, 23996, 23997}

LongPageResponses == {[kind |-> "dict", markdown |-> Page(n)] : n \in PageLengths}

\* the same turn of the loop when the page scraped is a long one
AppScrapeLongPage == AppScrapeFrom(LongPageResponses)

\* analyze_website_content on the combined content, and the display of its result
AppAnalyze ==
    /\ program = "app.py"
    /\ app_pc = "analyzing"
    /\ app_pc' = "idle"
    /\ \E resp \in AppCompletionResponses, instruction_option \in InstructionOptions :
        LET combined_content == Join(<<"\n">>, all_scraped_content)
            analysis_results == app_analyze_website_content(combined_content, resp)
        IN  /\ app_calls' = Append(app_calls,
                    AppCall("analysis", "",
                            full_prompt(combined_content, objective, instruction_option),
                            resp.kind))
            /\ IF analysis_results.error /= ""
               THEN /\ app_msgs' = Append(app_msgs, "error: Error in analyzing content")
                    /\ displayed' = NoResults
               ELSE /\ app_msgs' = Append(app_msgs, "success: Analysis complete!")
                    /\ displayed' = analysis_results.results
    /\ UNCHANGED <<program, mainVars, sessionState, objective, specific_url, runLocals>>

----------------------------------------------------------------------------
(* Initial states and specifications *)

MainInit ==
    /\ pc = "idle"
    /\ url = "" /\ second_url = "" /\ style_instructions = <<>>
    /\ scraped_content = None /\ analysis = None /\ fact_check = None /\ summary = None
    /\ scraped_content_2 = None /\ analysis_2 = None
    /\ fact_check_2 = None /\ summary_2 = None
    /\ results = ResultNone
    /\ calls = <<>> /\ errors = <<>> /\ shown = <<>>
    /\ failed_before = FALSE

AppInit ==
    /\ search_performed = FALSE
    /\ search_results = <<>>
    /\ checkbox_states = <<>>
    /\ app_pc = "idle"
    /\ objective = "" /\ specific_url = ""
    /\ selected_urls = <<>> /\ next_url = 1 /\ all_scraped_content = <<>>
    /\ app_calls = <<>> /\ app_msgs = <<>>
    /\ displayed = NoResults

Init == program = "main.py" /\ MainInit /\ AppInit

InitApp == program = "app.py" /\ MainInit /\ AppInit

InitRepo == program \in {"main.py", "app.py"} /\ MainInit /\ AppInit

RunNext ==
    \/ Scrape1 \/ Analyze1 \/ FactCheck1 \/ Summarize1
    \/ Scrape2 \/ Analyze2 \/ FactCheck2 \/ Summarize2
    \/ Editorial
    \/ UnexpectedException

MainNext == Submit \/ RunNext

NextRuns == SubmitRecorded \/ RunNext

Next == MainNext

AppNext == Search \/ Toggle \/ StartAnalysis \/ AppScrape \/ AppAnalyze

NextRepo == MainNext \/ AppNext

\* main.py under "streamlit run"
Spec == Init /\ [][Next]_vars

\* app.py under "streamlit run"
SpecApp == InitApp /\ [][AppNext]_vars

\* main.py with the history of failed runs recorded
SpecRuns == Init /\ [][NextRuns]_vars

\* app.py analysing pages long enough for the content limit to matter
NextLongPages == StartAnalysis \/ AppScrapeLongPage \/ AppAnalyze

SpecLongPages == InitApp /\ [][NextLongPages]_vars

\* either script of the repository
SpecRepo == InitRepo /\ [][NextRepo]_vars

----------------------------------------------------------------------------
(* Vocabulary of the properties of run_agents *)

Last(s) == s[Len(s)]

IsCompletion(c) == c.stage \in {"analysis", "fact_check", "summary", "editorial"}

SubChain(src) ==
    <<[stage |-> "scrape", src |-> src], [stage |-> "analysis", src |-> src],
      [stage |-> "fact_check", src |-> src], [stage |-> "summary", src |-> src]>>

\* the declared order of the external calls of one run
DeclaredOrder ==
    SubChain(1) \o (IF second_url /= "" THEN SubChain(2) ELSE <<>>)
        \o <<[stage |-> "editorial", src |-> 0]>>

\* the calls made so far are the first calls of the declared order
CallsArePrefix ==
    /\ Len(calls) <= Len(DeclaredOrder)
    /\ \A i \in 1..Len(calls) :
        /\ calls[i].stage = DeclaredOrder[i].stage
        /\ calls[i].src = DeclaredOrder[i].src

\* C1: when the completion call of a stage raises, that call is the last of
\* the run: every call before it succeeded, the calls made are exactly the
\* first ones of the declared order, the run has ended, and nothing (no
\* editorial, no section) is returned or shown.
C1_FailedStageEndsRun ==
    \A k \in 1..Len(calls) :
        (IsCompletion(calls[k]) /\ calls[k].outcome = "raised") =>
            /\ k = Len(calls)
            /\ CallsArePrefix
            /\ \A j \in 1..(k - 1) : Truthy(calls[j].ret)
            /\ RunFailed
            /\ results.Editorial = None
            /\ shown = <<>>

\* the fact-check of the second source raised after five successful calls
C1_Witness ==
    /\ Len(calls) = 7
    /\ calls[7].stage = "fact_check" /\ calls[7].src = 2
    /\ calls[7].outcome = "raised"
    /\ pc = "done"

\* C2: at every moment the calls made so far are a prefix of the declared
\* order (the right URL for each scrape, no stage skipped, reordered or made
\* twice), and every call but the last has returned a usable value.
C2_CallsFollowDeclaredOrder ==
    /\ CallsArePrefix
    /\ \A i \in 1..Len(calls) :
        /\ calls[i].stage = "scrape" => calls[i].url = (IF calls[i].src = 1 THEN url
                                                         ELSE second_url)
        /\ i < Len(calls) => Truthy(calls[i].ret)

\* a run over two sources that made all nine calls
C2_Witness ==
    /\ Len(calls) = 9
    /\ calls[5].stage = "scrape" /\ calls[5].url = "u2"
    /\ calls[9].stage = "editorial"

\* the field of the returned dict a stage's output goes to
ReturnedField(stage) ==
    IF stage = "analysis" THEN results.Analyse
    ELSE IF stage = "fact_check" THEN results.Faktenpruefung
    ELSE results.Zusammenfassung

FailureMessage(c) ==
    IF c.stage = "scrape" THEN
        (IF c.src = 1 THEN "Das Scrapen der Website ist fehlgeschlagen."
         ELSE "Das Scrapen der zweiten Website ist fehlgeschlagen.")
    ELSE IF c.stage = "analysis" THEN
        (IF c.src = 1 THEN "Inhalt konnte nicht analysiert werden."
         ELSE "Inhalt der zweiten Quelle konnte nicht analysiert werden.")
    ELSE IF c.stage = "fact_check" THEN
        (IF c.src = 1 THEN "Inhalt konnte nicht faktengeprueft werden."
         ELSE "Inhalt der zweiten Quelle konnte nicht faktengeprueft werden.")
    ELSE IF c.stage = "summary" THEN
        (IF c.src = 1 THEN "Inhalt konnte nicht zusammengefasst werden."
         ELSE "Inhalt der zweiten Quelle konnte nicht zusammengefasst werden.")
    ELSE "Editorial konnte nicht generiert werden."

C4_EmptyOutputContinues ==
    \A i \in 1..Len(calls) :
        (IsCompletion(calls[i]) /\ calls[i].outcome = "empty") =>
            ~(i = Len(calls) /\ RunFailed)

\* C4 amended: in run_agents a completion call that returns an empty or
\* blank text halts the run exactly as a raised error does: it is the last
\* call, its output is passed to no later stage, and None is returned.
C4_EmptyOutputHaltsRun ==
    \A i \in 1..Len(calls) :
        (IsCompletion(calls[i]) /\ calls[i].outcome \in {"empty", "blank"}) =>
            /\ i = Len(calls)
            /\ RunFailed
            /\ shown = <<>>
            /\ Last(errors) = FailureMessage(calls[i])

\* the analysis returned a blank text
C4_Witness ==
    /\ Len(calls) = 2
    /\ calls[2].stage = "analysis" /\ calls[2].outcome = "blank"
    /\ pc = "done"

\* C5 as the spec states it, for both scripts: when the completion service
\* raises, the run ends as failed and neither an editorial nor an analysis is
\* reported as completed.
C5_RaisedCompletionNeverReported ==
    /\ \A i \in 1..Len(calls) :
        (IsCompletion(calls[i]) /\ calls[i].outcome = "raised") =>
            RunFailed /\ shown = <<>>
    /\ \A i \in 1..Len(app_calls) :
        (app_calls[i].stage = "analysis" /\ app_calls[i].outcome = "raise") =>
            /\ displayed = NoResults
            /\ \A m \in 1..Len(app_msgs) : app_msgs[m] /= "success: Analysis complete!"

\* the fetcher delivered no usable text: an error, a response without text,
\* or an empty text
FetchFailed(c) ==
    c.stage = "scrape" /\ (c.outcome /= "dict" \/ c.fetched = None \/ c.fetched = <<>>)

\* C6: with a single URL, a fetch that fails, answers without text or answers
\* with an empty text halts the run: no completion call is made and
\* run_agents returns None.
C6_FetchFailureHaltsRun ==
    (second_url = "" /\ calls /= <<>> /\ FetchFailed(calls[1])) =>
        /\ Len(calls) = 1
        /\ RunFailed
        /\ shown = <<>>
        /\ Last(errors) = FailureMessage(calls[1])

\* the only page came back with an empty markdown
C6_Witness ==
    /\ second_url = ""
    /\ Len(calls) = 1
    /\ calls[1].outcome = "dict" /\ calls[1].fetched = <<>>
    /\ pc = "done"

\* in run_agents a failed fetch is the last call of the run, which fails
MainFetchFailureAborts ==
    \A i \in 1..Len(calls) :
        FetchFailed(calls[i]) => (i = Len(calls) /\ RunFailed /\ shown = <<>>)

AppScrapeCalls == SelectSeq(app_calls, LAMBDA c : c.stage = "scrape")
AppAnalysisCalls == SelectSeq(app_calls, LAMBDA c : c.stage = "analysis")

Done(stage, src, k) ==
    \E j \in 1..(k - 1) :
        calls[j].stage = stage /\ calls[j].src = src /\ Truthy(calls[j].ret)

\* the output that stage of that source returned
Output(stage, src) ==
    calls[CHOOSE j \in 1..Len(calls) : calls[j].stage = stage /\ calls[j].src = src].ret

Stages == {"analysis", "fact_check", "summary"}

Label(stage, src) ==
    IF stage = "analysis" THEN (IF src = 1 THEN LabelAnalyse ELSE LabelAnalyse2)
    ELSE IF stage = "fact_check"
        THEN (IF src = 1 THEN LabelFaktenpruefung ELSE LabelFaktenpruefung2)
    ELSE (IF src = 1 THEN LabelZusammenfassung ELSE LabelZusammenfassung2)

Sources == IF second_url /= "" THEN {1, 2} ELSE {1}

\* C8: the editorial stage is called only when analysis, fact-check and
\* summary have all returned an output, and its input holds the caller's
\* style instructions and each of those outputs, unchanged and right after
\* its label.
C8_EditorialInput ==
    \A k \in 1..Len(calls) :
        calls[k].stage = "editorial" =>
            /\ Contains(calls[k].input, LabelStil \o style_instructions)
            /\ \A stage \in Stages, src \in Sources :
                /\ Done(stage, src, k)
                /\ Contains(calls[k].input, Label(stage, src) \o Output(stage, src))

\* the editorial was called after three stages with different outputs
C8_Witness ==
    /\ Len(calls) = 5
    /\ calls[5].stage = "editorial"
    /\ calls[2].ret /= calls[3].ret
    /\ calls[3].ret /= calls[4].ret

\* C9: analysis, fact-check and summary each receive exactly the text the
\* fetcher delivered for their own source, never the output of a stage and
\* never the text of the other source.
C9_StagesReceiveOwnScrapedText ==
    \A k \in 1..Len(calls) :
        calls[k].stage \in Stages =>
            \E j \in 1..(k - 1) :
                /\ calls[j].stage = "scrape"
                /\ calls[j].src = calls[k].src
                /\ calls[k].input = calls[j].fetched

\* the three stages of the second source ran, on a page unlike the first
C9_Witness ==
    /\ Len(calls) = 8
    /\ calls[1].fetched /= calls[5].fetched
    /\ calls[8].stage = "summary" /\ calls[8].src = 2

\* C10: with two URLs the editorial is called only after both sub-chains
\* have completed, and its input holds, for analysis, fact-check and summary
\* alike, the first source's output, then the label of the second source,
\* then the second source's output.
C10_MergeInSourceOrder ==
    \A k \in 1..Len(calls) :
        (calls[k].stage = "editorial" /\ second_url /= "") =>
            /\ k = 9
            /\ \A stage \in Stages :
                /\ Done(stage, 1, k) /\ Done(stage, 2, k)
                /\ Contains(calls[k].input,
                            Label(stage, 1) \o Output(stage, 1)
                                \o Label(stage, 2) \o Output(stage, 2))

\* the editorial of a run over two sources whose analyses differ
C10_Witness ==
    /\ Len(calls) = 9
    /\ calls[9].stage = "editorial"
    /\ calls[2].ret /= calls[6].ret

\* the value is nothing, or what a call of this run returned for that stage
FromThisRun(value, stage, src) ==
    \/ value = None
    \/ \E j \in 1..Len(calls) :
        calls[j].stage = stage /\ calls[j].src = src /\ calls[j].ret = value

\* nothing in the state of the run comes from anywhere but this run
NothingRetained ==
    /\ CallsArePrefix
    /\ FromThisRun(scraped_content, "scrape", 1)
    /\ FromThisRun(analysis, "analysis", 1)
    /\ FromThisRun(fact_check, "fact_check", 1)
    /\ FromThisRun(summary, "summary", 1)
    /\ FromThisRun(scraped_content_2, "scrape", 2)
    /\ FromThisRun(analysis_2, "analysis", 2)
    /\ FromThisRun(fact_check_2, "fact_check", 2)
    /\ FromThisRun(summary_2, "summary", 2)
    /\ pc /= "done" => (results.isNone /\ results.Editorial = None /\ shown = <<>>)
    /\ pc = "scrape_1" => (calls = <<>> /\ errors = <<>>)
    /\ ~results.isNone =>
        /\ Len(calls) = Len(DeclaredOrder)
        /\ results.Editorial = Last(calls).ret

\* C11: a failed fetch, a raised completion and an exception nothing else
\* catches all make run_agents return None; and the run that follows a
\* failed run holds nothing of it: its locals, its calls, its page and its
\* result are those of a run started from scratch.
C11_FailureIsRunScoped ==
    /\ (calls /= <<>> /\ FetchFailed(Last(calls))) => RunFailed
    /\ (calls /= <<>> /\ IsCompletion(Last(calls)) /\ Last(calls).outcome = "raised")
        => RunFailed
    /\ (errors /= <<>> /\ Last(errors) = UnexpectedErrorMsg) => RunFailed
    /\ failed_before => NothingRetained

\* the run after a failed run ended with an editorial
C11_Witness ==
    /\ failed_before
    /\ pc = "done"
    /\ ~results.isNone
    /\ Len(calls) = 9

\* the limit the comment of analyze_website_content states
CommentedLimit == 8000

\* the number of tokens of full_prompt that precede the content
PromptHeaderLen == Len(full_prompt(<<>>, "", "default"))

\* the content part of a prompt
ContentPart(prompt) == SubSeq(prompt, PromptHeaderLen + 1, Len(prompt))

Min(a, b) == IF a < b THEN a ELSE b

\* C12 as the comment in the code states it: the content part of the prompt
\* sent to the completion service is the first min(len(content), 8000)
\* characters of the combined content.
C12_ContentLimitedTo8000 ==
    \A i \in 1..Len(app_calls) :
        app_calls[i].stage = "analysis" =>
            LET combined_content == Join(<<"\n">>, all_scraped_content)
                part == ContentPart(app_calls[i].input)
            IN  /\ Len(part) = Min(Len(combined_content), CommentedLimit)
                /\ part = SubSeq(combined_content, 1, Len(part))

\* the indices the page uses: enumerate(search_results) when it draws the
\* checkboxes and when it collects the ticked links
RenderIndices == 1..Len(search_results)

\* C13: in every reachable state of app.py, after any Search clicks, checkbox
\* toggles and Start Analysis clicks, checkbox_states is as long as
\* search_results, both hold at most five entries, and every index used to draw
\* the checkboxes and to collect the ticked links is an index of checkbox_states.
C13_CheckboxesMatchResults ==
    /\ Len(checkbox_states) = Len(search_results)
    /\ Len(search_results) <= TopResults
    /\ RenderIndices \subseteq DOMAIN checkbox_states
    /\ Len(selected_urls) <= Len(search_results) + 1

\* a search delivered five results or more, the last one is ticked and an
\* analysis of the collected links has fetched its pages
C13_Witness ==
    /\ Len(search_results) = TopResults
    /\ checkbox_states[TopResults]
    /\ app_pc = "analyzing"
    /\ ResultLink(TopResults) = selected_urls[Len(selected_urls)]

\* C14 as the spec states it: a Search click whose search call returns an error
\* leaves search_results and checkbox_states as they were and sets
\* search_performed; a Search click with an empty objective changes no session
\* state and makes no search call.
C14_FailedSearchKeepsResults ==
    [][Search =>
        /\ objective' = "" => (UNCHANGED sessionState /\ app_calls' = <<>>)
        /\ (objective' /= "" /\ Last(app_calls').outcome = "error") =>
              /\ search_results' = search_results
              /\ checkbox_states' = checkbox_states
              /\ search_performed']_vars

====
